---- MODULE Spec2Model ----
(***************************************************************************)
(* Model of bankier_rss_generator.py: the page fetcher with retries, the   *)
(* per-candidate article extraction, deduplication, feed assembly and the  *)
(* main() driver with its top-level exit handling.                         *)
(*                                                                         *)
(* Strings that the code inspects by prefix (URLs) or concatenates are     *)
(* sequences of tokens: prefix and concatenation of the token sequences    *)
(* are prefix and concatenation of the strings.  Instants are seconds.     *)
(***************************************************************************)
EXTENDS Integers, Sequences, FiniteSets, TLC

\* ------------------------------------------------------------------ bounds
\* largest retry argument tried on fetch_page when it is checked on its own
MaxRetry == 3
\* longest document (number of <div class="article"> blocks) given to the extractor
MaxCands == 2
\* longest accumulator handed to the post-loop part of main()
MaxLen == 3
\* largest number of seconds the clock moves while one candidate is examined
MaxTick == 1

\* ------------------------------------------------------- configuration
BASE_URL == <<"https", "://", "www.bankier.pl">>
NEWS_URL == BASE_URL \o <<"/", "wiadomosc", "/">>
PAGES_TO_SCAN == 5
TIME_FILTER_HOURS == 48
REQUEST_DELAY == 2
DEFAULT_RETRY == 3
SECONDS_PER_HOUR == 3600
\* utcoffset of Europe/Warsaw used by localize() (standard time, +01:00)
WARSAW_OFFSET == 3600

\* ------------------------------------------------------------ strings
StartsWith(s, p) == Len(p) <= Len(s) /\ SubSeq(s, 1, Len(p)) = p

\* str.startswith('http'): the first token begins with the letters http
startswith_http(link) == Len(link) > 0 /\ link[1] \in {"http", "https"}

\* urllib.parse.urljoin(base, link) for a link without scheme and host:
\* a path-absolute link replaces the (empty) path of base, any other one is
\* appended to the root
urljoin(base, link) ==
    IF Len(link) > 0 /\ link[1] = "/" THEN base \o link ELSE base \o <<"/">> \o link

get_page_url(page_number) ==
    IF page_number = 1 THEN NEWS_URL ELSE NEWS_URL \o <<ToString(page_number), "/">>

\* ------------------------------------------------- parsed document model
\* A text (get_text(strip=True), an attribute value) is a token sequence; the
\* empty string is <<>>.
\* value of a datetime attribute: kind "empty" is "", "garbage" is a text
\* fromisoformat rejects, "iso" is a wall-clock reading with or without offset
DtText(kind, wall, naive, offset) ==
    [kind |-> kind, wall |-> wall, naive |-> naive, offset |-> offset]
NoText == DtText("empty", 0, TRUE, 0)

\* a <time class="entry-date"> element: present or not, with or without the attribute
TimeTag(present, has_attr, datetime) ==
    [present |-> present, has_attr |-> has_attr, datetime |-> datetime]
NoTag == TimeTag(FALSE, FALSE, NoText)

\* -------------------------------------------------------- DateParser
\* parse_datetime: None is [ok |-> FALSE]; a naive reading is localized in
\* Europe/Warsaw, a reading with an offset is taken as it is
parse_datetime(datetime_str) ==
    IF datetime_str.kind # "iso"
    THEN [ok |-> FALSE, instant |-> 0]
    ELSE [ok |-> TRUE,
          instant |-> IF datetime_str.naive
                      THEN datetime_str.wall - WARSAW_OFFSET
                      ELSE datetime_str.wall - datetime_str.offset]

\* is_recent as it would be with > for >= at line 93
is_recent_strict(article_date, now) ==
    IF ~article_date.ok THEN FALSE
    ELSE LET cutoff == now - TIME_FILTER_HOURS * SECONDS_PER_HOUR
         IN  article_date.instant > cutoff

\* is_recent(article_date): now is the clock reading taken inside the call
is_recent(article_date, now) ==
    IF ~article_date.ok THEN FALSE
    ELSE LET cutoff == now - TIME_FILTER_HOURS * SECONDS_PER_HOUR
         IN  article_date.instant >= cutoff

\* ---------------------------------------------------- ArticleExtractor
\* time_tag as it would be chosen without the fallback of lines 144-145
find_time_tag_primary_only(article_div) ==
    IF article_div.entry_meta THEN article_div.meta_time ELSE NoTag

\* time_tag chosen by lines 137-145: the one under entry-meta, else the first
\* one anywhere in the block (reached only when entry-meta holds none)
find_time_tag(article_div) ==
    LET primary == IF article_div.entry_meta THEN article_div.meta_time ELSE NoTag
    IN  IF primary.present THEN primary ELSE article_div.div_time

\* link after lines 125-129
resolve_link(href) ==
    IF ~startswith_http(href) THEN urljoin(BASE_URL, href) ELSE href

\* description after lines 161-171; p_text is the paragraph's text once the
\* more-link anchor is removed from it
extract_description(article_div) ==
    IF article_div.entry_content /\ article_div.p THEN article_div.p_text ELSE <<>>

make_article(article_div, pub_date) ==
    LET title == article_div.title
        link == resolve_link(article_div.href)
        description == extract_description(article_div)
    IN  [title |-> title,
         link |-> link,
         description |-> IF description # <<>> THEN description ELSE title,
         pub_date |-> pub_date.instant,
         guid |-> link]

\* the branch one iteration of the loop of lines 105-188 ends in: the
\* continue it takes, the except clause of line 184, or the append of line 181
candidate_outcome(article_div, now) ==
    IF article_div.fault THEN "error"
    ELSE IF ~article_div.entry_title THEN "no_title"
    ELSE IF ~article_div.anchor \/ ~article_div.has_href \/ article_div.href = <<>>
         THEN "no_link"
    ELSE IF ~StartsWith(resolve_link(article_div.href), BASE_URL) THEN "external"
    ELSE LET time_tag == find_time_tag(article_div)
         IN  IF ~time_tag.present \/ ~time_tag.has_attr \/ time_tag.datetime.kind = "empty"
             THEN "no_date"
             ELSE LET pub_date == parse_datetime(time_tag.datetime)
                  IN  IF ~pub_date.ok THEN "unparsed"
                      ELSE IF ~is_recent(pub_date, now) THEN "old"
                      ELSE "appended"

\* what that iteration adds to articles: <<>> when the block is skipped,
\* else the appended record
extract_candidate(article_div, now) ==
    IF candidate_outcome(article_div, now) # "appended" THEN <<>>
    ELSE <<make_article(article_div, parse_datetime(find_time_tag(article_div).datetime))>>

RECURSIVE extract_from(_, _, _)
extract_from(soup, i, now) ==
    IF i > Len(soup) THEN <<>>
    ELSE extract_candidate(soup[i], now) \o extract_from(soup, i + 1, now)

\* extract_articles_from_page(soup, page_num) with one clock reading for the page
extract_articles_from_page(soup, now) == extract_from(soup, 1, now)

\* --------------------------------------------------------- Deduplicator
RECURSIVE dedupe_from(_, _, _)
dedupe_from(articles, i, seen) ==
    IF i > Len(articles) THEN <<>>
    ELSE IF articles[i].guid \notin seen
         THEN <<articles[i]>> \o dedupe_from(articles, i + 1, seen \cup {articles[i].guid})
         ELSE dedupe_from(articles, i + 1, seen)

\* remove_duplicates as it would be with a dict keyed by guid that later
\* records overwrite: the last record of each guid survives
RECURSIVE dedupe_last_from(_, _)
dedupe_last_from(articles, i) ==
    IF i > Len(articles) THEN <<>>
    ELSE IF \E j \in (i + 1)..Len(articles) : articles[j].guid = articles[i].guid
         THEN dedupe_last_from(articles, i + 1)
         ELSE <<articles[i]>> \o dedupe_last_from(articles, i + 1)
remove_duplicates_last_wins(articles) == dedupe_last_from(articles, 1)

remove_duplicates(articles) == dedupe_from(articles, 1, {})

\* -------------------------------------------------------- FeedAssembler
\* sorted(articles, key=pub_date, reverse=True): stable, so a record goes
\* behind every record already placed whose pub_date is greater or equal
RECURSIVE insert_desc(_, _)
insert_desc(sorted_part, article) ==
    IF sorted_part = <<>> THEN <<article>>
    ELSE IF Head(sorted_part).pub_date >= article.pub_date
         THEN <<Head(sorted_part)>> \o insert_desc(Tail(sorted_part), article)
         ELSE <<article>> \o sorted_part

RECURSIVE sort_from(_, _, _)
sort_from(articles, i, sorted_part) ==
    IF i > Len(articles) THEN sorted_part
    ELSE sort_from(articles, i + 1, insert_desc(sorted_part, articles[i]))

sorted_newest_first(articles) == sort_from(articles, 1, <<>>)

\* the entry filled by lines 230-235
feed_entry(article) ==
    [id |-> article.guid,
     title |-> article.title,
     link |-> article.link,
     description |-> article.description,
     published |-> article.pub_date,
     updated |-> article.pub_date]

\* fg.add_entry() is called without an order argument: FeedGenerator.add_entry
\* has order='prepend' as its default and inserts the new entry at index 0
add_entry(feed_entries, fe) == <<fe>> \o feed_entries

RECURSIVE add_entries_from(_, _, _)
add_entries_from(articles_sorted, i, feed_entries) ==
    IF i > Len(articles_sorted) THEN feed_entries
    ELSE add_entries_from(articles_sorted, i + 1,
                          add_entry(feed_entries, feed_entry(articles_sorted[i])))

\* generate_rss_feed as it would be with the loop of line 228 over
\* articles_sorted[1:]
assemble_feed_from_second(articles) ==
    add_entries_from(sorted_newest_first(articles), 2, <<>>)

\* the entries of fg, in the order rss_file serializes them, after lines 225-235
assemble_feed(articles) == add_entries_from(sorted_newest_first(articles), 1, <<>>)

\* ------------------------------------------------------------- inputs
RECURSIVE SeqsUpTo(_, _)
SeqsUpTo(S, n) ==
    IF n = 0 THEN {<<>>}
    ELSE LET shorter == SeqsUpTo(S, n - 1)
         IN  shorter \cup {Append(q, x) : q \in {r \in shorter : Len(r) = n - 1}, x \in S}

\* the clock reading of main()'s run: the run lasts seconds, the window is hours
RUN_NOW == 0
WINDOW == TIME_FILTER_HOURS * SECONDS_PER_HOUR

IsoOffset(instant) == DtText("iso", instant + SECONDS_PER_HOUR, FALSE, SECONDS_PER_HOUR)
IsoNaive(instant) == DtText("iso", instant + WARSAW_OFFSET, TRUE, 0)

\* a complete teaser block: title anchor with a site-relative href, timestamp
\* under entry-meta, lead paragraph
Cand(path, title, instant) ==
    [fault |-> FALSE,
     entry_title |-> TRUE, anchor |-> TRUE, has_href |-> TRUE,
     href |-> <<"/", path>>, title |-> <<title>>,
     entry_meta |-> TRUE,
     meta_time |-> TimeTag(TRUE, TRUE, IsoOffset(instant)),
     div_time |-> NoTag,
     entry_content |-> TRUE, p |-> TRUE, p_text |-> <<"lead", title>>]

AbsHref(path) == BASE_URL \o <<"/", path>>
ExternalHref == <<"https", "://", "example.org", "/", "a">>
LookalikeHref == <<"https", "://", "www.bankier.pl", ".example.org", "/", "a">>
PlainHttpHref == <<"http", "://", "www.bankier.pl", "/", "a">>

\* listing pages the site answers with in a run of main()
DocTie == <<Cand("a", "A", -3600), Cand("b", "B", -3600), Cand("b", "B2", -900)>>
DocRepeat == <<[Cand("a", "A2", -1800) EXCEPT !.href = AbsHref("a")], Cand("c", "C", -7200)>>
DocNothing == <<Cand("d", "D", -WINDOW - 1), [Cand("e", "E", -60) EXCEPT !.href = ExternalHref]>>
MainDocs == {DocTie, DocRepeat, DocNothing}
\* what the listing serves while one run lasts: the listing changes slowly,
\* so a run sees few distinct documents
Sites == {{DocTie, DocRepeat}, {DocNothing}}

\* blocks given to the extractor on its own: the complete block and the blocks
\* that differ from it in one respect
Base == Cand("a", "A", -3600)
GoodTag == TimeTag(TRUE, TRUE, IsoOffset(-3600))
CandSet ==
    { Base,
      Cand("b", "B", -1800),
      [Base EXCEPT !.fault = TRUE],
      [Base EXCEPT !.entry_title = FALSE],
      [Base EXCEPT !.anchor = FALSE],
      [Base EXCEPT !.has_href = FALSE],
      [Base EXCEPT !.href = <<>>],
      [Base EXCEPT !.href = <<"a">>],
      [Base EXCEPT !.href = AbsHref("a")],
      [Base EXCEPT !.href = ExternalHref],
      [Base EXCEPT !.href = LookalikeHref],
      [Base EXCEPT !.href = PlainHttpHref],
      [Base EXCEPT !.title = <<>>],
      [Base EXCEPT !.title = <<>>, !.p = FALSE],
      [Base EXCEPT !.entry_meta = FALSE],
      [Base EXCEPT !.entry_meta = FALSE, !.div_time = GoodTag],
      [Base EXCEPT !.meta_time = NoTag, !.div_time = GoodTag],
      [Base EXCEPT !.meta_time = NoTag],
      [Base EXCEPT !.meta_time = TimeTag(TRUE, FALSE, NoText)],
      [Base EXCEPT !.meta_time = TimeTag(TRUE, FALSE, NoText), !.div_time = GoodTag],
      [Base EXCEPT !.meta_time = TimeTag(TRUE, TRUE, NoText)],
      [Base EXCEPT !.meta_time = TimeTag(TRUE, TRUE, DtText("garbage", 0, TRUE, 0))],
      [Base EXCEPT !.meta_time = TimeTag(TRUE, TRUE, IsoNaive(-1800))],
      [Base EXCEPT !.meta_time = TimeTag(TRUE, TRUE, IsoNaive(-WINDOW))],
      [Base EXCEPT !.meta_time = TimeTag(TRUE, TRUE, IsoOffset(-WINDOW + 1))],
      [Base EXCEPT !.meta_time = TimeTag(TRUE, TRUE, IsoOffset(-WINDOW - 1))],
      [Base EXCEPT !.entry_content = FALSE],
      [Base EXCEPT !.p = FALSE],
      [Base EXCEPT !.p_text = <<>>] }

\* records the accumulator holds when the post-loop part of main() is run on
\* its own: guid = link as line 178 sets it
Rec(path, title, instant) ==
    [title |-> <<title>>, link |-> AbsHref(path), description |-> <<title>>,
     pub_date |-> instant, guid |-> AbsHref(path)]
RecSet == {Rec(path, title, instant) : path \in {"a", "b"}, title \in {"T", "U"},
                                       instant \in {-3600, -1800}}

\* ------------------------------------------------------------- state
VARIABLES
    pc,              \* position in the program
    exception,       \* the exception propagating to the top level, or "none"
    ret,             \* value returned by main(), -1 before it returns
    exit_status,     \* status given to sys.exit, -1 while the process runs
    page_num,        \* main(): loop variable
    all_articles,    \* main(): accumulator
    unique_articles, \* main(): result of remove_duplicates
    feed_entries,    \* entries of the FeedGenerator, in serialization order
    feed_file,       \* bankier_rss.xml
    debug_file,      \* debug.html
    url, retry, attempt, response,   \* fetch_page: arguments, loop variable, result
    soup, idx, articles, now,        \* extract_articles_from_page on its own
    attempt_log,     \* history: outcomes of the HTTP attempts of the current fetch_page call
    backoff_log,     \* history: seconds slept between the attempts of that call
    fetch_log,       \* history: page numbers fetch_page was called for
    response_log,    \* history: what fetch_page returned for those pages
    paused,          \* history: seconds main() slept since fetch_page last returned
    steps,           \* history: post-loop steps main() has performed
    examined_at,     \* history: clock reading at which each candidate was examined
    outcome_log,     \* history: the branch each candidate's iteration ended in
    get_calls,       \* history: requests.get calls made inside fetch_page (line 56)
    dump_request,    \* history: URLs requested by main() itself (line 292)
    site             \* environment: the documents the listing pages serve during the run

ctl == <<pc, exception, ret, exit_status>>
fetchv == <<url, retry, attempt, response, attempt_log, backoff_log>>
loopv == <<page_num, all_articles, fetch_log, response_log, paused>>
tailv == <<unique_articles, feed_entries, feed_file, debug_file, steps>>
extv == <<soup, idx, articles, now, examined_at, outcome_log>>
netv == <<get_calls, dump_request, site>>
vars == <<ctl, fetchv, loopv, tailv, extv, netv>>

NoneResponse == [ok |-> FALSE, content |-> <<>>]
Response(content) == [ok |-> TRUE, content |-> content]
File(state, entries) == [state |-> state, entries |-> entries]

\* values of the variables a specification does not use
IdleFetch ==
    /\ url = <<>> /\ retry = 0 /\ attempt = 0
    /\ response = NoneResponse /\ attempt_log = <<>> /\ backoff_log = <<>>
IdleLoop ==
    /\ page_num = 1 /\ fetch_log = <<>> /\ response_log = <<>> /\ paused = 0
IdleTail ==
    /\ unique_articles = <<>> /\ feed_entries = <<>> /\ steps = <<>>
    /\ debug_file = File("absent", <<>>)
IdleExtract ==
    /\ soup = <<>> /\ idx = 1 /\ articles = <<>> /\ now = RUN_NOW
    /\ examined_at = <<>> /\ outcome_log = <<>>
IdleNet ==
    /\ get_calls = 0 /\ dump_request = <<>>
Running ==
    /\ exception = "none" /\ ret = -1 /\ exit_status = -1

\* ------------------------------------------------------- PageFetcher
\* fetch_page(u, r) is entered: lines 51-53
call_fetch_page(u, r) ==
    /\ url' = u
    /\ retry' = r
    /\ attempt' = 0
    /\ attempt_log' = <<>>
    /\ backoff_log' = <<>>
    /\ response' = NoneResponse

\* fetch_page has returned to line 265: main() keeps the returned value, the
\* frame of the call is gone
leave_fetch_page ==
    /\ url' = <<>>
    /\ retry' = 0
    /\ attempt' = 0
    /\ attempt_log' = <<>>
    /\ backoff_log' = <<>>
    /\ UNCHANGED response

\* lines 56-61: requests.get and raise_for_status succeed, the response is returned
AttemptOk ==
    /\ pc = "fetch_page"
    /\ attempt < retry
    /\ \E content \in site :
          response' = Response(content)
    /\ attempt_log' = Append(attempt_log, "ok")
    /\ pc' = "fetch_return"
    /\ paused' = 0
    /\ UNCHANGED <<url, retry, attempt, backoff_log>>
    /\ UNCHANGED <<exception, ret, exit_status>>
    /\ UNCHANGED <<page_num, all_articles, fetch_log, response_log>>
    /\ UNCHANGED <<tailv, extv>>
    /\ get_calls' = get_calls + 1
    /\ UNCHANGED <<dump_request, site>>

\* wait_time as it would be computed from the loop variable alone
backoff_zero_based(failed_attempt) == failed_attempt * 2

\* wait_time of line 65
backoff(failed_attempt) == (failed_attempt + 1) * 2

\* fetch_page as it would be with the return of line 70 outside the else:
\* the first caught failure ends the call
AttemptRequestExceptionGivesUp ==
    /\ pc = "fetch_page"
    /\ attempt < retry
    /\ attempt_log' = Append(attempt_log, "RequestException")
    /\ response' = NoneResponse
    /\ pc' = "fetch_return"
    /\ paused' = 0
    /\ UNCHANGED <<url, retry, attempt, backoff_log>>
    /\ UNCHANGED <<exception, ret, exit_status>>
    /\ UNCHANGED <<page_num, all_articles, fetch_log, response_log>>
    /\ UNCHANGED <<tailv, extv>>
    /\ get_calls' = get_calls + 1
    /\ UNCHANGED <<dump_request, site>>

\* lines 62-70: a requests.RequestException (timeout, connection error, HTTP
\* error status) is caught; sleep and go round again, or give up with None
AttemptRequestException ==
    /\ pc = "fetch_page"
    /\ attempt < retry
    /\ attempt_log' = Append(attempt_log, "RequestException")
    /\ IF attempt < retry - 1
       THEN /\ backoff_log' = Append(backoff_log, backoff(attempt))
            /\ attempt' = attempt + 1
            /\ UNCHANGED <<pc, response, paused>>
       ELSE /\ response' = NoneResponse
            /\ pc' = "fetch_return"
            /\ paused' = 0
            /\ UNCHANGED <<attempt, backoff_log>>
    /\ UNCHANGED <<url, retry>>
    /\ UNCHANGED <<exception, ret, exit_status>>
    /\ UNCHANGED <<page_num, all_articles, fetch_log, response_log>>
    /\ UNCHANGED <<tailv, extv>>
    /\ get_calls' = get_calls + 1
    /\ UNCHANGED <<dump_request, site>>

\* an exception that is no requests.RequestException passes the except clause
\* of line 62 and leaves fetch_page
AttemptOtherError ==
    /\ pc = "fetch_page"
    /\ attempt < retry
    /\ attempt_log' = Append(attempt_log, "Exception")
    /\ pc' = "raised"
    /\ exception' = "Exception"
    /\ UNCHANGED <<url, retry, attempt, response, backoff_log>>
    /\ UNCHANGED <<ret, exit_status>>
    /\ UNCHANGED <<loopv, tailv, extv>>
    /\ get_calls' = get_calls + 1
    /\ UNCHANGED <<dump_request, site>>

\* range(retry) is exhausted without a return: the function ends, returning None
\* (only with retry <= 0: the last failing round returns at line 70)
FetchFallThrough ==
    /\ pc = "fetch_page"
    /\ attempt >= retry
    /\ response' = NoneResponse
    /\ pc' = "fetch_return"
    /\ paused' = 0
    /\ UNCHANGED <<url, retry, attempt, attempt_log, backoff_log>>
    /\ UNCHANGED <<exception, ret, exit_status>>
    /\ UNCHANGED <<page_num, all_articles, fetch_log, response_log>>
    /\ UNCHANGED <<tailv, extv>>
    /\ UNCHANGED netv

\* ----------------------------------------------------- PipelineDriver
\* the loop as it would be calling fetch_page(url, retry=DEFAULT_RETRY + 1)
NextPageExtraRetry ==
    /\ pc = "main_loop"
    /\ page_num <= PAGES_TO_SCAN
    /\ call_fetch_page(get_page_url(page_num), DEFAULT_RETRY + 1)
    /\ fetch_log' = Append(fetch_log, page_num)
    /\ pc' = "fetch_page"
    /\ UNCHANGED netv
    /\ UNCHANGED <<exception, ret, exit_status>>
    /\ UNCHANGED <<page_num, all_articles, response_log, paused>>
    /\ UNCHANGED <<tailv, extv>>

\* lines 260-265: the loop takes the next page and calls fetch_page(url)
NextPage ==
    /\ pc = "main_loop"
    /\ page_num <= PAGES_TO_SCAN
    /\ call_fetch_page(get_page_url(page_num), DEFAULT_RETRY)
    /\ fetch_log' = Append(fetch_log, page_num)
    /\ pc' = "fetch_page"
    /\ UNCHANGED <<exception, ret, exit_status>>
    /\ UNCHANGED <<page_num, all_articles, response_log, paused>>
    /\ UNCHANGED <<tailv, extv>>
    /\ UNCHANGED netv

\* the loop as it would be with break in place of continue at line 269
SkipPageEndsLoop ==
    /\ pc = "fetch_return"
    /\ ~response.ok
    /\ response_log' = Append(response_log, response)
    /\ pc' = "aggregated"
    /\ UNCHANGED <<exception, ret, exit_status>>
    /\ UNCHANGED <<page_num, all_articles, fetch_log, paused>>
    /\ leave_fetch_page
    /\ UNCHANGED <<tailv, extv>>
    /\ UNCHANGED netv

\* lines 267-269: the page could not be fetched
SkipPage ==
    /\ pc = "fetch_return"
    /\ ~response.ok
    /\ response_log' = Append(response_log, response)
    /\ page_num' = page_num + 1
    /\ pc' = "main_loop"
    /\ UNCHANGED <<exception, ret, exit_status>>
    /\ UNCHANGED <<all_articles, fetch_log, paused>>
    /\ leave_fetch_page
    /\ UNCHANGED <<tailv, extv>>
    /\ UNCHANGED netv

\* lines 271-280: parse, extract, extend the accumulator, sleep before the next page
ProcessPage ==
    /\ pc = "fetch_return"
    /\ response.ok
    /\ response_log' = Append(response_log, response)
    /\ all_articles' = all_articles \o extract_articles_from_page(response.content, RUN_NOW)
    /\ paused' = IF page_num < PAGES_TO_SCAN THEN paused + REQUEST_DELAY ELSE paused
    /\ page_num' = page_num + 1
    /\ pc' = "main_loop"
    /\ UNCHANGED <<exception, ret, exit_status>>
    /\ UNCHANGED fetch_log
    /\ leave_fetch_page
    /\ UNCHANGED <<tailv, extv>>
    /\ UNCHANGED netv

\* the range of line 260 is exhausted
LoopDone ==
    /\ pc = "main_loop"
    /\ page_num > PAGES_TO_SCAN
    /\ pc' = "aggregated"
    /\ UNCHANGED <<exception, ret, exit_status>>
    /\ UNCHANGED <<fetchv, loopv, tailv, extv>>
    /\ UNCHANGED netv

\* main() as it would be with the dump written to OUTPUT_FILE
EmptyResultDumpsToFeed ==
    /\ pc = "aggregated"
    /\ all_articles = <<>>
    /\ feed_file' = File("partial", <<>>)
    /\ steps' = Append(steps, "dump")
    /\ ret' = 1
    /\ pc' = "main_return"
    /\ UNCHANGED <<exception, exit_status>>
    /\ UNCHANGED <<unique_articles, feed_entries, debug_file>>
    /\ UNCHANGED <<fetchv, loopv, extv>>
    /\ dump_request' = Append(dump_request, NEWS_URL)
    /\ UNCHANGED <<get_calls, site>>

\* main() as it would be with return 0 at line 298
EmptyResultReturnsZero ==
    /\ pc = "aggregated"
    /\ all_articles = <<>>
    /\ \E dump \in {"written", "request_failed", "open_failed", "write_failed"} :
          debug_file' = CASE dump = "written" -> File("written", <<>>)
                          [] dump = "write_failed" -> File("partial", <<>>)
                          [] OTHER -> debug_file
    /\ steps' = Append(steps, "dump")
    /\ ret' = 0
    /\ pc' = "main_return"
    /\ UNCHANGED <<exception, exit_status>>
    /\ UNCHANGED <<unique_articles, feed_entries, feed_file>>
    /\ UNCHANGED <<fetchv, loopv, extv>>
    /\ dump_request' = Append(dump_request, NEWS_URL)
    /\ UNCHANGED <<get_calls, site>>

\* main() as it would be without the try/except of lines 291-296: a failure
\* of the dump's request or write leaves main()
EmptyResultDumpUnguarded ==
    /\ pc = "aggregated"
    /\ all_articles = <<>>
    /\ \E dump \in {"written", "request_failed", "open_failed", "write_failed"} :
          /\ debug_file' = CASE dump = "written" -> File("written", <<>>)
                             [] dump = "write_failed" -> File("partial", <<>>)
                             [] OTHER -> debug_file
          /\ IF dump = "written"
             THEN /\ ret' = 1
                  /\ pc' = "main_return"
                  /\ UNCHANGED exception
             ELSE /\ exception' = "Exception"
                  /\ pc' = "raised"
                  /\ UNCHANGED ret
    /\ steps' = Append(steps, "dump")
    /\ dump_request' = Append(dump_request, NEWS_URL)
    /\ UNCHANGED exit_status
    /\ UNCHANGED <<get_calls, site>>
    /\ UNCHANGED <<unique_articles, feed_entries, feed_file>>
    /\ UNCHANGED <<fetchv, loopv, extv>>

\* lines 288-298: nothing was collected; the dump of the first page is tried
\* (request and write inside try/except Exception) and main() returns 1
EmptyResult ==
    /\ pc = "aggregated"
    /\ all_articles = <<>>
    /\ \E dump \in {"written", "request_failed", "open_failed", "write_failed"} :
          debug_file' = CASE dump = "written" -> File("written", <<>>)
                          [] dump = "write_failed" -> File("partial", <<>>)
                          [] OTHER -> debug_file
    /\ steps' = Append(steps, "dump")
    /\ ret' = 1
    /\ pc' = "main_return"
    /\ UNCHANGED <<exception, exit_status>>
    /\ UNCHANGED <<unique_articles, feed_entries, feed_file>>
    /\ UNCHANGED <<fetchv, loopv, extv>>
    /\ dump_request' = Append(dump_request, NEWS_URL)
    /\ UNCHANGED <<get_calls, site>>

\* main() as it would be with generate_rss_feed(all_articles)
DeduplicateSkipped ==
    /\ pc = "aggregated"
    /\ all_articles # <<>>
    /\ unique_articles' = all_articles
    /\ steps' = Append(steps, "dedupe")
    /\ pc' = "deduped"
    /\ UNCHANGED <<exception, ret, exit_status>>
    /\ UNCHANGED <<feed_entries, feed_file, debug_file>>
    /\ UNCHANGED <<fetchv, loopv, extv>>
    /\ UNCHANGED netv

\* main() as it would be without the test of line 288
DeduplicateUnguarded ==
    /\ pc = "aggregated"
    /\ unique_articles' = remove_duplicates(all_articles)
    /\ steps' = Append(steps, "dedupe")
    /\ pc' = "deduped"
    /\ UNCHANGED <<exception, ret, exit_status>>
    /\ UNCHANGED <<feed_entries, feed_file, debug_file>>
    /\ UNCHANGED <<fetchv, loopv, extv>>
    /\ UNCHANGED netv

\* line 301
Deduplicate ==
    /\ pc = "aggregated"
    /\ all_articles # <<>>
    /\ unique_articles' = remove_duplicates(all_articles)
    /\ steps' = Append(steps, "dedupe")
    /\ pc' = "deduped"
    /\ UNCHANGED <<exception, ret, exit_status>>
    /\ UNCHANGED <<feed_entries, feed_file, debug_file>>
    /\ UNCHANGED <<fetchv, loopv, extv>>
    /\ UNCHANGED netv

\* generate_rss_feed, lines 215-235: the feed is built in memory
Assemble ==
    /\ pc = "deduped"
    /\ feed_entries' = assemble_feed(unique_articles)
    /\ steps' = Append(steps, "assemble")
    /\ pc' = "assembled"
    /\ UNCHANGED <<exception, ret, exit_status>>
    /\ UNCHANGED <<unique_articles, feed_file, debug_file>>
    /\ UNCHANGED <<fetchv, loopv, extv>>
    /\ UNCHANGED netv

\* generate_rss_feed, line 238: fg.rss_file serializes and writes the file
WriteFeed ==
    /\ pc = "assembled"
    /\ feed_file' = File("written", feed_entries)
    /\ steps' = Append(steps, "write")
    /\ pc' = "written"
    /\ UNCHANGED <<exception, ret, exit_status>>
    /\ UNCHANGED <<unique_articles, feed_entries, debug_file>>
    /\ UNCHANGED <<fetchv, loopv, extv>>
    /\ UNCHANGED netv

\* line 238 fails: rss_file raises before the file is opened, or while it is
\* written (an I/O error, or the user's interrupt arriving during the write)
WriteFeedFails ==
    /\ pc = "assembled"
    /\ \E damage \in {"none", "partial"} :
          feed_file' = IF damage = "partial" THEN File("partial", <<>>) ELSE feed_file
    /\ \E e \in {"Exception", "KeyboardInterrupt"} : exception' = e
    /\ steps' = Append(steps, "write")
    /\ pc' = "raised"
    /\ UNCHANGED <<ret, exit_status>>
    /\ UNCHANGED <<unique_articles, feed_entries, debug_file>>
    /\ UNCHANGED <<fetchv, loopv, extv>>
    /\ UNCHANGED netv

\* lines 239-240 and 307-311
ReturnSuccess ==
    /\ pc = "written"
    /\ ret' = 0
    /\ pc' = "main_return"
    /\ UNCHANGED <<exception, exit_status>>
    /\ UNCHANGED <<fetchv, loopv, tailv, extv>>
    /\ UNCHANGED netv

\* ---------------------------------------------------------- top level
\* line 316: sys.exit(main())
Exit ==
    /\ pc = "main_return"
    /\ exit_status' = ret
    /\ pc' = "exited"
    /\ UNCHANGED <<exception, ret>>
    /\ UNCHANGED <<fetchv, loopv, tailv, extv>>
    /\ UNCHANGED netv

\* the user's interrupt arrives while main() runs: KeyboardInterrupt is no
\* Exception, so no handler inside main() stops it
InsideMain == {"main_loop", "fetch_page", "fetch_return", "aggregated",
               "deduped", "assembled", "written"}
Interrupt ==
    /\ pc \in InsideMain
    /\ exception' = "KeyboardInterrupt"
    /\ pc' = "raised"
    /\ UNCHANGED <<ret, exit_status>>
    /\ UNCHANGED <<fetchv, loopv, tailv, extv>>
    /\ UNCHANGED netv

\* lines 317-324: both handlers exit with status 1
TopLevelExcept ==
    /\ pc = "raised"
    /\ exit_status' = 1
    /\ pc' = "exited"
    /\ UNCHANGED <<exception, ret>>
    /\ UNCHANGED <<fetchv, loopv, tailv, extv>>
    /\ UNCHANGED netv

\* the feed file of an earlier run may be there when the run starts
Init ==
    /\ pc = "main_loop"
    /\ Running
    /\ all_articles = <<>>
    /\ feed_file \in {File("absent", <<>>), File("prior", <<>>)}
    /\ IdleFetch /\ IdleLoop /\ IdleTail /\ IdleExtract
    /\ IdleNet
    /\ site \in Sites

Next ==
    \/ NextPage
    \/ AttemptOk
    \/ AttemptRequestException
    \/ AttemptOtherError
    \/ SkipPage
    \/ ProcessPage
    \/ LoopDone
    \/ EmptyResult
    \/ Deduplicate
    \/ Assemble
    \/ WriteFeed
    \/ WriteFeedFails
    \/ ReturnSuccess
    \/ Exit
    \/ Interrupt
    \/ TopLevelExcept

Spec == Init /\ [][Next]_vars

\* the run under a scheduler that lets it go on: every HTTP attempt ends
\* (timeout=15 at line 56, timeout=10 at line 292), every sleep ends and
\* every step of main() finishes, so a step that can be taken is taken
SpecFair == Init /\ [][Next]_vars /\ WF_vars(Next)

\* ------------------------------------------- fetch_page on its own
InitFetch ==
    /\ pc = "fetch_page"
    /\ Running
    /\ url \in {get_page_url(n) : n \in 1..PAGES_TO_SCAN}
    /\ retry \in 0..MaxRetry
    /\ attempt = 0 /\ response = NoneResponse /\ attempt_log = <<>> /\ backoff_log = <<>>
    /\ all_articles = <<>>
    /\ feed_file = File("absent", <<>>)
    /\ IdleLoop /\ IdleTail /\ IdleExtract
    /\ IdleNet
    /\ site = MainDocs

NextFetch ==
    \/ AttemptOk
    \/ AttemptRequestException
    \/ AttemptOtherError
    \/ FetchFallThrough

\* every HTTP attempt ends (timeout=15) and every sleep ends, so a round of
\* the loop that can be taken is taken
SpecFetch == InitFetch /\ [][NextFetch]_vars /\ WF_vars(NextFetch)

\* ------------------------------ extract_articles_from_page on its own
\* one round of the loop of lines 105-188; the clock may move between rounds
ExtractCandidate ==
    /\ pc = "extract"
    /\ idx <= Len(soup)
    /\ \E tick \in 0..MaxTick :
          /\ now' = now + tick
          /\ articles' = articles \o extract_candidate(soup[idx], now')
          /\ examined_at' = Append(examined_at, now')
          /\ outcome_log' = Append(outcome_log, candidate_outcome(soup[idx], now'))
    /\ idx' = idx + 1
    /\ UNCHANGED <<pc, soup>>
    /\ UNCHANGED <<exception, ret, exit_status>>
    /\ UNCHANGED <<all_articles, fetchv, page_num, fetch_log, response_log, paused, tailv>>
    /\ UNCHANGED netv

\* line 190
ExtractReturn ==
    /\ pc = "extract"
    /\ idx > Len(soup)
    /\ pc' = "extract_return"
    /\ UNCHANGED <<exception, ret, exit_status>>
    /\ UNCHANGED <<fetchv, loopv, tailv, extv>>
    /\ UNCHANGED netv

InitExtract ==
    /\ pc = "extract"
    /\ Running
    /\ soup \in SeqsUpTo(CandSet, MaxCands)
    /\ idx = 1 /\ articles = <<>> /\ now = RUN_NOW
    /\ examined_at = <<>> /\ outcome_log = <<>>
    /\ all_articles = <<>>
    /\ feed_file = File("absent", <<>>)
    /\ IdleFetch /\ IdleLoop /\ IdleTail
    /\ IdleNet
    /\ site = {}

NextExtract ==
    \/ ExtractCandidate
    \/ ExtractReturn

SpecExtract == InitExtract /\ [][NextExtract]_vars

\* ------------------------- the post-loop part of main() on its own
InitTail ==
    /\ pc = "aggregated"
    /\ Running
    /\ all_articles \in SeqsUpTo(RecSet, MaxLen)
    /\ feed_file = File("prior", <<>>)
    /\ IdleFetch /\ IdleLoop /\ IdleTail /\ IdleExtract
    /\ IdleNet
    /\ site = {}

NextTail ==
    \/ EmptyResult
    \/ Deduplicate
    \/ Assemble
    \/ WriteFeed
    \/ WriteFeedFails
    \/ ReturnSuccess
    \/ Exit
    \/ Interrupt
    \/ TopLevelExcept

SpecTail == InitTail /\ [][NextTail]_vars

\* =====================================================================
\* Properties
\* =====================================================================
IsPrefix(p, q) == Len(p) <= Len(q) /\ SubSeq(q, 1, Len(p)) = p
Terminated == exit_status # -1
FetchStarts == pc = "fetch_page" /\ attempt = 0 /\ attempt_log = <<>>

\* C1: in main(), when fetch_page starts for a page after the first, main()
\* has paused REQUEST_DELAY seconds since fetch_page returned for the page
\* before, whether that fetch succeeded or failed; after the last page there
\* is no pause.
C1_PauseBetweenPages ==
    /\ (FetchStarts /\ page_num > 1) => paused = REQUEST_DELAY
    /\ pc = "aggregated" => paused = 0

\* C2: one call of fetch_page issues at most retry attempts; a response is
\* returned at the first successful attempt, which is the last attempt; None
\* is returned only after exactly retry failed attempts, and retry failed
\* attempts in a row end the call with None; the call terminates.
C2_Attempts ==
    /\ Len(attempt_log) <= retry
    /\ \A i \in 1..Len(attempt_log) :
          attempt_log[i] = "ok" => (i = Len(attempt_log) /\ pc = "fetch_return" /\ response.ok)
    /\ (pc = "fetch_return" /\ response.ok) =>
          /\ attempt_log # <<>>
          /\ attempt_log[Len(attempt_log)] = "ok"
          /\ \A i \in 1..(Len(attempt_log) - 1) : attempt_log[i] = "RequestException"
    /\ (pc = "fetch_return" /\ ~response.ok) =>
          /\ Len(attempt_log) = retry
          /\ \A i \in 1..Len(attempt_log) : attempt_log[i] = "RequestException"
    /\ (retry > 0 /\ Len(attempt_log) = retry
            /\ \A i \in 1..retry : attempt_log[i] = "RequestException")
          => (pc = "fetch_return" /\ ~response.ok)
\* C2: the attempt bounds hold throughout the call, and the call ends
C2_BoundedRetry == []C2_Attempts /\ <>(pc # "fetch_page")
C2_Witness ==
    /\ pc = "fetch_return" /\ ~response.ok
    /\ retry = MaxRetry /\ Len(attempt_log) = MaxRetry

\* C3: main() calls fetch_page once for each page 1..PAGES_TO_SCAN in
\* increasing order; a failed page adds nothing and the loop goes on; after
\* the loop the accumulator is the concatenation, in page order, of what was
\* extracted from the pages fetched successfully.
RECURSIVE ConcatExtracted(_, _)
ConcatExtracted(log, i) ==
    IF i > Len(log) THEN <<>>
    ELSE (IF log[i].ok THEN extract_articles_from_page(log[i].content, RUN_NOW) ELSE <<>>)
         \o ConcatExtracted(log, i + 1)
LoopFinished == pc \in {"aggregated", "deduped", "assembled", "written", "main_return"}
C3_PagesInOrder ==
    /\ Len(fetch_log) <= PAGES_TO_SCAN
    /\ \A i \in 1..Len(fetch_log) : fetch_log[i] = i
    /\ Len(response_log) \in {Len(fetch_log) - 1, Len(fetch_log)}
    /\ all_articles = ConcatExtracted(response_log, 1)
    /\ (pc = "main_loop" /\ page_num <= PAGES_TO_SCAN) => Len(fetch_log) = page_num - 1
    /\ (LoopFinished \/ steps # <<>>) =>
          /\ Len(fetch_log) = PAGES_TO_SCAN
          /\ Len(response_log) = PAGES_TO_SCAN
C3_Witness ==
    /\ pc = "aggregated"
    /\ ~response_log[1].ok /\ response_log[2].ok /\ ~response_log[3].ok
    /\ response_log[4].ok /\ response_log[4].content # response_log[2].content
    /\ Len(all_articles) > 3

\* C4: after the loop an empty accumulator leads to the diagnostic dump and
\* return 1 with no deduplication, assembly or feed write; a non-empty one
\* leads to deduplication, assembly, write and return 0, in that order.
C4_Branch ==
    /\ ~(LoopFinished \/ steps # <<>>) => (steps = <<>> /\ ret = -1)
    /\ all_articles = <<>> =>
          /\ steps \in {<<>>, <<"dump">>}
          /\ ret \in {-1, 1}
          /\ unique_articles = <<>> /\ feed_entries = <<>>
          /\ feed_file.state \in {"absent", "prior"}
          /\ pc = "main_return" => (ret = 1 /\ steps = <<"dump">>)
    /\ all_articles # <<>> =>
          /\ IsPrefix(steps, <<"dedupe", "assemble", "write">>)
          /\ ret \in {-1, 0}
          /\ debug_file.state = "absent"
          /\ pc = "main_return" => ret = 0
    /\ ret = 0 =>
          /\ steps = <<"dedupe", "assemble", "write">>
          /\ feed_file = File("written", feed_entries)
C4_Witness ==
    /\ pc = "main_return" /\ ret = 1 /\ steps = <<"dump">>
    /\ Len(response_log) = PAGES_TO_SCAN
    /\ \A i \in 1..PAGES_TO_SCAN : ~response_log[i].ok

HasStep(done, step) == \E i \in 1..Len(done) : done[i] = step
FeedWritten == feed_file.state = "written" /\ feed_file.entries # <<>>

\* C5 as claimed: a terminated run exits with 0 if and only if the feed file
\* was written in that run with at least one entry, and with 1 otherwise.
C5_ExitZeroIffWritten ==
    Terminated =>
        /\ exit_status \in {0, 1}
        /\ exit_status = 0 <=> FeedWritten

\* C5 as amended: a terminated run exits with 0 if and only if the feed file
\* was written in that run with at least one entry and no exception reached
\* the top level afterwards; it exits with 1 when nothing was collected and
\* when an exception or the user's interrupt reached the top level, also
\* when that happens after the feed file was written.
C5_ExitStatus ==
    Terminated =>
        /\ exit_status \in {0, 1}
        /\ exit_status = 0 <=> (FeedWritten /\ exception = "none")
        /\ exit_status = 0 => (ret = 0 /\ HasStep(steps, "write"))
        /\ exception # "none" => exit_status = 1
        /\ (all_articles = <<>> /\ Len(response_log) = PAGES_TO_SCAN) => exit_status = 1
C5_Witness ==
    /\ exit_status = 1 /\ exception = "KeyboardInterrupt"
    /\ FeedWritten /\ Len(feed_file.entries) = Len(unique_articles)

\* C6: no step of a run changes the feed file unless it is the write step:
\* the loop, an interrupt or error before the write, and the empty-result
\* path leave the file as it was.
C6_FeedFileUntouched ==
    [][(~HasStep(steps', "write")) => feed_file' = feed_file]_vars
C6_Witness ==
    /\ Terminated /\ exception = "KeyboardInterrupt"
    /\ steps = <<"dedupe", "assemble">>
    /\ feed_file = File("prior", <<>>)

\* C7: remove_duplicates is idempotent; its result is a subsequence of the
\* input with pairwise distinct guids, holding for every guid of the input
\* the first input record with that guid.
RECURSIVE FirstOccurrences(_, _)
FirstOccurrences(xs, i) ==
    IF i > Len(xs) THEN <<>>
    ELSE (IF \A j \in 1..(i - 1) : xs[j].guid # xs[i].guid THEN <<xs[i]>> ELSE <<>>)
         \o FirstOccurrences(xs, i + 1)
IsSubsequence(ys, xs) ==
    \E f \in [1..Len(ys) -> 1..Len(xs)] :
        /\ \A i \in 1..Len(ys) : xs[f[i]] = ys[i]
        /\ \A i, j \in 1..Len(ys) : i < j => f[i] < f[j]
C7_Dedupe ==
    HasStep(steps, "dedupe") =>
        /\ remove_duplicates(unique_articles) = unique_articles
        /\ IsSubsequence(unique_articles, all_articles)
        /\ \A i, j \in 1..Len(unique_articles) :
              i # j => unique_articles[i].guid # unique_articles[j].guid
        /\ {unique_articles[i].guid : i \in 1..Len(unique_articles)}
              = {all_articles[i].guid : i \in 1..Len(all_articles)}
        /\ unique_articles = FirstOccurrences(all_articles, 1)
C7_Witness ==
    /\ HasStep(steps, "dedupe")
    /\ Len(all_articles) = 3 /\ Len(unique_articles) = 2
    /\ all_articles[1].guid = all_articles[3].guid
    /\ all_articles[1] # all_articles[3]
    /\ unique_articles = <<all_articles[1], all_articles[2]>>

\* C8: the entries of the feed are in descending order of published, and
\* entries with equal published are in the order of their records in the
\* list given to generate_rss_feed.
PositionOf(guid, records) == CHOOSE i \in 1..Len(records) : records[i].guid = guid
C8_NewestFirst ==
    HasStep(steps, "assemble") =>
        /\ Len(feed_entries) = Len(unique_articles)
        /\ \A i, j \in 1..Len(feed_entries) :
              i < j =>
                 /\ feed_entries[i].published >= feed_entries[j].published
                 /\ feed_entries[i].published = feed_entries[j].published =>
                       PositionOf(feed_entries[i].id, unique_articles)
                          < PositionOf(feed_entries[j].id, unique_articles)

\* C9: in the written feed every link of an accepted candidate has exactly
\* one entry, and that entry carries the fields of the first accepted
\* candidate with that link in page order, then document order.
RECURSIVE CandidatesInOrder(_, _)
CandidatesInOrder(log, i) ==
    IF i > Len(log) THEN <<>>
    ELSE (IF log[i].ok THEN log[i].content ELSE <<>>) \o CandidatesInOrder(log, i + 1)
Accepted(article_div) == extract_candidate(article_div, RUN_NOW) # <<>>
C9_OneEntryPerLink ==
    feed_file.state = "written" =>
        LET cands == SelectSeq(CandidatesInOrder(response_log, 1), Accepted)
        IN  \A k \in 1..Len(cands) :
               LET link == resolve_link(cands[k].href)
                   first == CHOOSE i \in 1..Len(cands) :
                               /\ resolve_link(cands[i].href) = link
                               /\ \A j \in 1..(i - 1) : resolve_link(cands[j].href) # link
                   hits == {e \in 1..Len(feed_file.entries) : feed_file.entries[e].link = link}
               IN  /\ Cardinality(hits) = 1
                   /\ \A e \in hits :
                         feed_file.entries[e] =
                            feed_entry(extract_candidate(cands[first], RUN_NOW)[1])
C9_Witness ==
    /\ feed_file.state = "written"
    /\ response_log[2] = Response(DocRepeat) /\ response_log[4] = Response(DocTie)
    /\ \E e \in 1..Len(feed_file.entries) :
          /\ feed_file.entries[e].link = AbsHref("a")
          /\ feed_file.entries[e].title = <<"A2">>
    /\ \E e \in 1..Len(feed_file.entries) :
          /\ feed_file.entries[e].link = AbsHref("b")
          /\ feed_file.entries[e].title = <<"B">>

\* C10: extract_articles_from_page returns, in document order, exactly the
\* records of the candidates that are well-formed, inside the window when
\* examined and of the configured origin; a skipped or failing candidate
\* changes nothing for its siblings.
RECURSIVE Origin(_)
Origin(link) ==
    IF link = <<>> \/ Head(link) = "/" THEN <<>> ELSE <<Head(link)>> \o Origin(Tail(link))
IsAbsolute(href) == Len(href) >= 2 /\ href[2] = "://"
Resolved(href) == IF IsAbsolute(href) THEN href ELSE urljoin(BASE_URL, href)
Timestamp(article_div) ==
    LET primary == IF article_div.entry_meta THEN article_div.meta_time ELSE NoTag
    IN  IF primary.present THEN primary ELSE article_div.div_time
WellFormed(article_div) ==
    /\ ~article_div.fault
    /\ article_div.entry_title /\ article_div.anchor
    /\ article_div.has_href /\ article_div.href # <<>>
    /\ Timestamp(article_div).present /\ Timestamp(article_div).has_attr
    /\ Timestamp(article_div).datetime.kind = "iso"
InWindow(article_div, at) ==
    parse_datetime(Timestamp(article_div).datetime).instant >= at - WINDOW
SameOrigin(article_div) == Origin(Resolved(article_div.href)) = BASE_URL
RecordOf(article_div) ==
    LET text == IF article_div.entry_content /\ article_div.p
                THEN article_div.p_text ELSE <<>>
    IN  [title |-> article_div.title,
         link |-> Resolved(article_div.href),
         description |-> IF text # <<>> THEN text ELSE article_div.title,
         pub_date |-> parse_datetime(Timestamp(article_div).datetime).instant,
         guid |-> Resolved(article_div.href)]
RECURSIVE ExpectedRecords(_, _, _)
ExpectedRecords(doc, at, n) ==
    IF n = 0 THEN <<>>
    ELSE ExpectedRecords(doc, at, n - 1)
         \o (IF WellFormed(doc[n]) /\ InWindow(doc[n], at[n]) /\ SameOrigin(doc[n])
             THEN <<RecordOf(doc[n])>> ELSE <<>>)
C10_ExactlyTheGoodCandidates ==
    /\ pc \in {"extract", "extract_return"}
    /\ Len(examined_at) = idx - 1
    /\ articles = ExpectedRecords(soup, examined_at, idx - 1)

\* what holds of the extractor instead: the same list, with the origin test
\* read as the prefix test of line 132
RECURSIVE PrefixTestRecords(_, _, _)
PrefixTestRecords(doc, at, n) ==
    IF n = 0 THEN <<>>
    ELSE PrefixTestRecords(doc, at, n - 1)
         \o (IF /\ WellFormed(doc[n]) /\ InWindow(doc[n], at[n])
                /\ StartsWith(Resolved(doc[n].href), BASE_URL)
             THEN <<RecordOf(doc[n])>> ELSE <<>>)
ExtractIndependent ==
    /\ pc \in {"extract", "extract_return"}
    /\ articles = PrefixTestRecords(soup, examined_at, idx - 1)

\* C11: every record the extractor constructs has a non-empty title and a
\* non-empty description, whatever the candidate block looked like.
C11_TitleAndDescription ==
    \A k \in 1..Len(articles) :
       /\ articles[k].title # <<>>
       /\ articles[k].description # <<>>

\* C12: every record's link is an absolute URL whose origin (scheme and
\* host) is the origin of BASE_URL, and a candidate whose resolved href has
\* another origin leaves no record.
C12_LinkOfBaseOrigin ==
    /\ \A k \in 1..Len(articles) :
          /\ IsAbsolute(articles[k].link)
          /\ Origin(articles[k].link) = BASE_URL
    /\ \A i \in 1..(idx - 1) :
          (/\ ~soup[i].fault /\ soup[i].anchor /\ soup[i].has_href
           /\ Origin(Resolved(soup[i].href)) # BASE_URL)
          => \A k \in 1..Len(articles) : articles[k].link # Resolved(soup[i].href)

\* C13: no error crosses the boundary of fetch_page: whatever the HTTP call
\* does, the call is still running or has returned a response or None.
C13_NoErrorCrosses ==
    /\ pc \in {"fetch_page", "fetch_return"}
    /\ exception = "none"

\* C14: after the k-th failed attempt of a call, k < retry, fetch_page
\* sleeps exactly k * 2 seconds before attempt k + 1; after the last failed
\* attempt it returns None without sleeping.
NumFailed == Cardinality({i \in 1..Len(attempt_log) : attempt_log[i] = "RequestException"})
C14_LinearBackoff ==
    /\ \A k \in 1..Len(backoff_log) : k < retry /\ backoff_log[k] = k * 2
    /\ Len(backoff_log) =
          IF pc = "fetch_return" /\ ~response.ok /\ retry > 0
          THEN NumFailed - 1
          ELSE NumFailed
    /\ (pc = "fetch_page" /\ attempt_log # <<>>) => Len(backoff_log) = attempt
C14_Witness ==
    /\ pc = "fetch_return" /\ ~response.ok
    /\ retry = 3
    /\ backoff_log = <<2, 4>>

\* C15: is_recent is true exactly of a timestamp that is present and not
\* older than now minus the window, the boundary included; so a candidate is
\* dropped as old exactly when its timestamp is older than the window at the
\* moment it is examined, and every record returned is inside that window.
AppendedAt ==
    SelectSeq([i \in 1..Len(outcome_log) |-> i], LAMBDA i : outcome_log[i] = "appended")
C15_Recency ==
    /\ \A t \in {now - WINDOW - 1, now - WINDOW, now - WINDOW + 1, now} :
          is_recent([ok |-> TRUE, instant |-> t], now) <=> (t >= now - WINDOW)
    /\ ~is_recent([ok |-> FALSE, instant |-> now], now)
    /\ \A i \in 1..Len(outcome_log) :
          LET instant == parse_datetime(Timestamp(soup[i]).datetime).instant
          IN  /\ outcome_log[i] = "appended" => instant >= examined_at[i] - WINDOW
              /\ outcome_log[i] = "old" => instant < examined_at[i] - WINDOW
    /\ Len(AppendedAt) = Len(articles)
    /\ \A k \in 1..Len(articles) :
          articles[k].pub_date >= examined_at[AppendedAt[k]] - WINDOW
C15_Witness ==
    /\ Len(soup) = 2 /\ soup[1] = soup[2]
    /\ examined_at = <<RUN_NOW, RUN_NOW + 1>>
    /\ outcome_log = <<"appended", "old">>
    /\ Len(articles) = 1 /\ articles[1].pub_date = RUN_NOW - WINDOW

\* C16 as stated: a candidate is skipped for a missing timestamp only when
\* neither the time tag under entry-meta nor the one directly under the block
\* yields a datetime attribute; if either yields one it is parsed and used.
Yields(time_tag) ==
    time_tag.present /\ time_tag.has_attr /\ time_tag.datetime.kind # "empty"
PrimaryTag(article_div) == IF article_div.entry_meta THEN article_div.meta_time ELSE NoTag
FallbackTag(article_div) == article_div.div_time
C16_EitherLocation ==
    \A i \in 1..Len(outcome_log) :
       outcome_log[i] = "no_date" =>
          ~Yields(PrimaryTag(soup[i])) /\ ~Yields(FallbackTag(soup[i]))

\* C16, amended: the timestamp element is the one under entry-meta when
\* there is one, else the one directly under the block; a candidate that
\* reaches the timestamp step is skipped for a missing timestamp exactly when
\* that element is absent or has no non-empty datetime attribute, and
\* otherwise that element's timestamp is the one parsed and used.
ReachesTimestampStep(article_div) ==
    /\ ~article_div.fault
    /\ article_div.entry_title /\ article_div.anchor
    /\ article_div.has_href /\ article_div.href # <<>>
    /\ StartsWith(Resolved(article_div.href), BASE_URL)
C16_LocatedElement ==
    /\ \A i \in 1..Len(outcome_log) :
          LET located == IF PrimaryTag(soup[i]).present THEN PrimaryTag(soup[i])
                         ELSE FallbackTag(soup[i])
          IN  /\ outcome_log[i] = "no_date" <=>
                    (ReachesTimestampStep(soup[i]) /\ ~Yields(located))
              /\ (ReachesTimestampStep(soup[i]) /\ Yields(located)) =>
                    /\ outcome_log[i] = "unparsed" <=> ~parse_datetime(located.datetime).ok
                    /\ outcome_log[i] \in {"unparsed", "old", "appended"}
    /\ Len(AppendedAt) = Len(articles)
    /\ \A k \in 1..Len(articles) :
          LET article_div == soup[AppendedAt[k]]
              located == IF PrimaryTag(article_div).present THEN PrimaryTag(article_div)
                         ELSE FallbackTag(article_div)
          IN  articles[k].pub_date = parse_datetime(located.datetime).instant
C16_Witness ==
    /\ Len(soup) = 2 /\ Len(outcome_log) = 2
    /\ ~soup[1].entry_meta /\ Yields(soup[1].div_time) /\ outcome_log[1] = "appended"
    /\ soup[2].entry_meta /\ soup[2].meta_time.present /\ ~soup[2].meta_time.has_attr
    /\ Yields(soup[2].div_time) /\ outcome_log[2] = "no_date"

\* C17: on the empty-result path the dump is best-effort: whether its
\* request and its file write succeed or fail, no error leaves main(),
\* main() returns 1 and the feed file is not touched.
C17_DumpBestEffort ==
    HasStep(steps, "dump") =>
       /\ pc \in {"main_return", "exited"}
       /\ exception = "none"
       /\ ret = 1
       /\ pc = "exited" => exit_status = 1
       /\ debug_file.state \in {"absent", "partial", "written"}
       /\ feed_file \in {File("absent", <<>>), File("prior", <<>>)}
       /\ steps = <<"dump">>
C17_Witness ==
    /\ steps = <<"dump">>
    /\ debug_file.state = "partial"
    /\ pc = "exited" /\ exit_status = 1 /\ exception = "none"
    /\ feed_file = File("prior", <<>>)

\* C18: a failure of the feed write is fatal (it reaches the top-level
\* handler and the process exits with 1) and it is the only error that keeps
\* a run with a non-empty accumulator from writing the feed: fetch failures
\* and per-candidate failures never do.
C18_OnlyWriteFailureAborts ==
    /\ (HasStep(steps, "write") /\ feed_file.state # "written") =>
          /\ pc \in {"raised", "exited"}
          /\ exception # "none"
          /\ pc = "exited" => exit_status = 1
    /\ (Terminated /\ all_articles # <<>> /\ exception # "KeyboardInterrupt") =>
          /\ HasStep(steps, "write")
          /\ exception = "none" => FeedWritten

\* C19: every run terminates, having made at most PAGES_TO_SCAN * retry
\* requests through fetch_page, and beside them exactly one request, for the
\* first listing page, made by main() itself on the empty-result path only,
\* also when page 1 had been fetched successfully before.
C19_Requests ==
    /\ get_calls <= Len(fetch_log) * DEFAULT_RETRY
    /\ get_calls <= PAGES_TO_SCAN * DEFAULT_RETRY
    /\ dump_request = IF HasStep(steps, "dump") THEN <<NEWS_URL>> ELSE <<>>
    /\ dump_request # <<>> => (all_articles = <<>> /\ Len(response_log) = PAGES_TO_SCAN)
    /\ (LoopFinished /\ all_articles # <<>>) => dump_request = <<>>
C19_BoundedRun == []C19_Requests /\ <>Terminated
C19_Witness ==
    /\ Terminated /\ exit_status = 1
    /\ Len(response_log) = PAGES_TO_SCAN /\ response_log[1].ok
    /\ get_calls = PAGES_TO_SCAN * DEFAULT_RETRY
    /\ dump_request = <<get_page_url(1)>>

\* C20: the written feed neither loses nor invents articles: the ids of its
\* entries are the distinct guids of the accumulator, there are as many
\* entries as distinct guids, and every entry has the id, link, title,
\* description, published and updated of one accumulated record whose guid
\* is its link.
AccumulatedGuids == {all_articles[i].guid : i \in 1..Len(all_articles)}
C20_FeedIsTheAccumulator ==
    feed_file.state = "written" =>
       LET entries == feed_file.entries
       IN  /\ {entries[e].id : e \in 1..Len(entries)} = AccumulatedGuids
           /\ Len(entries) = Cardinality(AccumulatedGuids)
           /\ \A e \in 1..Len(entries) :
                 \E i \in 1..Len(all_articles) :
                    /\ all_articles[i].guid = all_articles[i].link
                    /\ entries[e].id = all_articles[i].guid
                    /\ entries[e].link = all_articles[i].link
                    /\ entries[e].title = all_articles[i].title
                    /\ entries[e].description = all_articles[i].description
                    /\ entries[e].published = all_articles[i].pub_date
                    /\ entries[e].updated = all_articles[i].pub_date
C20_Witness ==
    /\ pc = "exited" /\ exit_status = 0
    /\ feed_file.state = "written"
    /\ Len(feed_file.entries) = 3
    /\ Len(all_articles) > 3

====
